---- MODULE Spec2Model ----
(***************************************************************************)
(* State-machine model of the chat relay: src/app.py (Flask / Socket.IO    *)
(* handlers and the per-client session) and src/utils/langgraph_agent.py   *)
(* (ClaudeLangGraphAgent.chat, chat_stream, get_conversation_history).     *)
(*                                                                         *)
(* A text is a sequence of tokens, so that string concatenation is \o and  *)
(* the empty string is << >> (falsy in Python).  LangChain messages are    *)
(* records [type, content]; session entries are records [role, text].      *)
(* utils/mongo_checkpointer.py is not part of the sources: the store keeps *)
(* the latest checkpoint per thread and its calls may raise.               *)
(***************************************************************************)
EXTENDS Naturals, Sequences, FiniteSets, TLC

\* ---------------------------------------------------------------- bounds
MaxRequests == 2      \* requests (socket events, page loads or direct calls) begun in a run

\* ------------------------------------------------------------ the domains
Clients == {"c1", "c2"}
ApiCaller == "api"
PeerCaller == "peer"
Procs == Clients \cup {ApiCaller, PeerCaller}
Threads == {"t1", "t2"}

None == "None"
APP_SYSTEM_PROMPT == "You are Claude, a helpful and friendly AI assistant. Be concise in your responses."

EmptyText == << >>
UserTexts == {EmptyText, <<"Hi">>}
InvokeTexts == {EmptyText, <<"tok1">>}
ProviderErrors == {<<"Error code: 401">>, <<"Connection error.">>}
StoreErrors == {<<"store unavailable">>}

\* what the provider can stream: the contents of its chunks in order (a chunk
\* may carry no content); at any point it may raise instead of going on
IsPrefix(s, t) == Len(s) <= Len(t) /\ SubSeq(t, 1, Len(s)) = s
StreamScripts == { << >>,
                   << EmptyText >>,
                   << <<"tok1">> >>,
                   << EmptyText, <<"tok2">> >>,
                   << <<"tok1">>, <<"tok2">> >> }
\* the contents the next chunk can have after the chunks in produced
NextChunks(produced) ==
    {s[Len(produced) + 1] : s \in {t \in StreamScripts : Len(t) > Len(produced) /\ IsPrefix(produced, t)}}

\* the tokens in which the substring "Error" occurs
TokensWithError == {"Error: ", "Error during streaming: ",
                    "Error communicating with Claude: ", "Error code: 401"}
ContainsError(text) == \E i \in 1..Len(text) : text[i] \in TokensWithError

\* Python truthiness of an Optional[str] (prompt, thread id) and of a text or list
Truthy(s) == s # None /\ s # ""
NonEmpty(t) == t # << >>

\* ------------------------------------------------------------ messages
HumanMessage(content) == [type |-> "human", content |-> content]
AIMessage(content) == [type |-> "ai", content |-> content]
SystemMessage(prompt) == [type |-> "system", content |-> <<prompt>>]
Entry(role, text) == [role |-> role, text |-> text]

RECURSIVE format_messages_for_graph(_)
format_messages_for_graph(history) ==
    IF history = << >> THEN << >>
    ELSE LET msg == Head(history)
             rest == format_messages_for_graph(Tail(history))
         IN  IF msg.role = "user" THEN <<HumanMessage(msg.text)>> \o rest
             ELSE IF msg.role = "assistant" THEN <<AIMessage(msg.text)>> \o rest
             ELSE rest

\* index(): LangChain messages of a checkpoint back to session entries
RECURSIVE stored_to_chat_history(_)
stored_to_chat_history(msgs) ==
    IF msgs = << >> THEN << >>
    ELSE LET msg == Head(msgs)
             rest == stored_to_chat_history(Tail(msgs))
         IN  IF msg.type = "human" THEN <<Entry("user", msg.content)>> \o rest
             ELSE IF msg.type = "ai" THEN <<Entry("assistant", msg.content)>> \o rest
             ELSE rest

\* ------------------------------------------------------------ the store
NoCheckpoint == [exists |-> FALSE, messages |-> << >>, system |-> ""]
Checkpoint(messages, system) == [exists |-> TRUE, messages |-> messages, system |-> system]

\* what an earlier run of the process can have left for a thread: one turn
EarlierCheckpoint ==
    Checkpoint(<<HumanMessage(<<"Hi">>), AIMessage(<<"tok1">>)>>, APP_SYSTEM_PROMPT)

\* ------------------------------------------------------------- the state
VARIABLES
    api_key,        \* ANTHROPIC_API_KEY was set at process start
    claude_agent,   \* "Agent" or None (module global of app.py)
    checkpointer,   \* claude_agent.checkpointer is not None
    store,          \* thread id -> latest checkpoint (or NoCheckpoint)
    session,        \* client -> [chat_history, thread_id, history_loaded]
    pc,             \* process -> its position in handle_message / chat / chat_stream
    frame,          \* process -> the locals of its running request
    requests        \* requests begun so far

vars == <<api_key, claude_agent, checkpointer, store, session, pc, frame, requests>>

\* The locals of one request, kept until the process begins its next one.
\* caller says who consumes chat / chat_stream: "hm" (handle_message) or "api"
\* (a direct call).  The last fields record what the request did: the text the
\* user sent, the chunks the provider has streamed, the checkpoints get_checkpoint
\* returned, the message lists given to the model, the message lists it saved,
\* the processes that were between load and save on the same thread when it
\* loaded, whether the generator raised into its consumer, and its events.
EmptyFrame ==
    [caller |-> "none", history |-> << >>, system_prompt |-> None, thread_id |-> None,
     formatted_messages |-> << >>, state |-> [messages |-> << >>, system |-> ""],
     full_response |-> EmptyText, assistant_response |-> EmptyText,
     result |-> << >>, raised |-> FALSE,
     user_message |-> EmptyText, script |-> << >>, loaded |-> << >>, sent |-> << >>,
     saved |-> << >>, overlapped |-> {}, trace |-> << >>]

\* one event of a request's trace
Ev(ev, arg) == [ev |-> ev, arg |-> arg]
Emit(f, ev, arg) == [f EXCEPT !.trace = Append(@, Ev(ev, arg))]
HasEv(tr, ev) == \E i \in DOMAIN tr : tr[i].ev = ev

\* --------------------------------------------------------- process start
\* ClaudeLangGraphAgent.__init__: raises without the key or when ChatAnthropic
\* cannot be built; a failing MongoCheckpointer() is logged and skipped.
AgentInitRaises(key, llm_ok) == ~key \/ ~llm_ok
AgentInitCheckpointer(mongo_ok) == mongo_ok

\* app.py: the module-level construction of claude_agent
ModuleStartup(key, llm_ok) ==
    IF key /\ ~AgentInitRaises(key, llm_ok) THEN "Agent" ELSE None

Init ==
    /\ \E key \in BOOLEAN, llm_ok \in BOOLEAN, mongo_ok \in BOOLEAN :
          /\ api_key = key
          /\ claude_agent = ModuleStartup(key, llm_ok)
          /\ checkpointer = (ModuleStartup(key, llm_ok) = "Agent" /\ AgentInitCheckpointer(mongo_ok))
    /\ store \in {[t \in Threads |-> NoCheckpoint],
                  [t \in Threads |-> IF t = "t1" THEN EarlierCheckpoint ELSE NoCheckpoint]}
    /\ session = [c \in Clients |-> [chat_history |-> << >>, thread_id |-> "t1", history_loaded |-> FALSE]]
    /\ pc = [p \in Procs |-> "idle"]
    /\ frame = [p \in Procs |-> EmptyFrame]
    /\ requests = 0

\* ------------------------------------------------- session helpers (app.py)
\* a helper that rejects an empty text
add_to_chat_history_rejecting_empty(sess, role, text) ==
    IF NonEmpty(text) THEN [sess EXCEPT !.chat_history = Append(@, Entry(role, text))] ELSE sess

\* a helper that replaces the history by the new entry
add_to_chat_history_rewriting(sess, role, text) ==
    [sess EXCEPT !.chat_history = <<Entry(role, text)>>]

add_to_chat_history(sess, role, text) ==
    [sess EXCEPT !.chat_history = Append(@, Entry(role, text))]

\* ------------------------------------------------ the consumer of a stream
\* a consumer that forwards a fragment without accumulating it
Consume_without_buffer(f, chunk) ==
    IF f.caller = "hm" /\ NonEmpty(chunk) THEN Emit(f, "response_chunk", chunk) ELSE f

\* handle_message's loop body: a truthy chunk is accumulated and emitted.  A
\* direct caller of chat_stream only receives the fragment.
Consume(f, chunk) ==
    IF f.caller = "hm" /\ NonEmpty(chunk)
    THEN Emit([f EXCEPT !.assistant_response = @ \o chunk], "response_chunk", chunk)
    ELSE f

\* chat_stream yields a fragment to its consumer
Yield(f, chunk) == Consume(Emit(f, "yield", chunk), chunk)

\* Where control goes when the generator is exhausted (or has raised).  In
\* handle_message, line 254: the blocking fallback is tried when nothing was
\* collected; f is the frame after the generator's last step.
AfterGenerator(f) ==
    IF f.caller = "hm"
    THEN IF ~NonEmpty(f.assistant_response) /\ claude_agent # None
         THEN "chat_load" ELSE "hm_finish"
    ELSE "idle"

\* the processes between their load and their save on thread t
InFlightPcs == {"cs_stream", "chat_invoke"}
InFlight(t) == {q \in Procs : pc[q] \in InFlightPcs /\ frame[q].thread_id = t}

\* ------------------------------------------------------ handle_message
\* lines 209-235: append the user message, emit response_start, and answer
\* with an error chunk when claude_agent is None.
HM_Begin(c, user_message) ==
    /\ pc[c] = "idle"
    /\ requests < MaxRequests
    /\ requests' = requests + 1
    /\ LET sess == add_to_chat_history(session[c], "user", user_message)
           f0 == Emit([EmptyFrame EXCEPT !.caller = "hm",
                                        !.user_message = user_message,
                                        !.history = sess.chat_history,
                                        !.thread_id = sess.thread_id,
                                        !.system_prompt = APP_SYSTEM_PROMPT],
                      "response_start", EmptyText)
       IN  /\ session' = [session EXCEPT ![c] = sess]
           /\ IF claude_agent = None
              THEN /\ frame' = [frame EXCEPT ![c] =
                          Emit(Emit(f0, "response_chunk", <<"Error: ", "Claude agent was not properly initialized">>),
                               "response_end", EmptyText)]
                   /\ pc' = [pc EXCEPT ![c] = "idle"]
              ELSE /\ frame' = [frame EXCEPT ![c] = f0]
                   /\ pc' = [pc EXCEPT ![c] = "cs_start"]
    /\ UNCHANGED <<api_key, claude_agent, checkpointer, store>>

\* ------------------------------------------------------------ chat_stream
\* lines 200-203: the checkpoint's messages come first, then the caller's
MergeStream(prev, formatted) ==
    IF prev.exists /\ NonEmpty(formatted) THEN prev.messages \o formatted ELSE formatted

\* lines 205-207
MessagesToSend(formatted, system_prompt) ==
    IF Truthy(system_prompt) THEN <<SystemMessage(system_prompt)>> \o formatted ELSE formatted

\* a chat_stream without its except clause: the exception leaves the generator
StreamExcept_reraise(f, e) == [f EXCEPT !.raised = TRUE]

\* an except clause that only logs
StreamExcept_logging_only(f, e) == f

\* lines 243-246: the except clause of chat_stream yields one error fragment
StreamExcept(f, e) == Yield(f, <<"Error during streaming: ">> \o e)

\* lines 190-216, up to the call of llm.stream.  get_checkpoint is outside the
\* try: when it raises, the generator raises into its consumer, which for
\* handle_message is the except clause of lines 246-251.
CS_Start(p) ==
    /\ pc[p] = "cs_start"
    /\ LET f == frame[p]
           formatted == format_messages_for_graph(f.history)
       IN  \/ LET merged == IF Truthy(f.thread_id) /\ checkpointer
                               THEN MergeStream(store[f.thread_id], formatted)
                               ELSE formatted
                     f1 == [f EXCEPT !.formatted_messages = merged,
                                     !.loaded = IF Truthy(f.thread_id) /\ checkpointer
                                                THEN Append(@, store[f.thread_id]) ELSE @,
                                     !.overlapped = IF Truthy(f.thread_id) /\ checkpointer
                                                    THEN @ \cup (InFlight(f.thread_id) \ {p}) ELSE @,
                                     !.sent = Append(@, MessagesToSend(merged, f.system_prompt))]
                     f2 == IF Truthy(f.thread_id) /\ checkpointer
                           THEN Emit(f1, "get_checkpoint", EmptyText) ELSE f1
                 IN  /\ frame' = [frame EXCEPT ![p] = Emit(f2, "model_stream", EmptyText)]
                     /\ pc' = [pc EXCEPT ![p] = "cs_stream"]
           \/ /\ Truthy(f.thread_id) /\ checkpointer
              /\ \E e \in StoreErrors :
                   LET f1 == Emit([f EXCEPT !.formatted_messages = formatted, !.raised = TRUE],
                                  "get_failed", e)
                       f2 == IF f.caller = "hm"
                             THEN Emit(f1, "response_chunk", <<"Error: ">> \o e) ELSE f1
                   IN  /\ frame' = [frame EXCEPT ![p] = f2]
                       /\ pc' = [pc EXCEPT ![p] = AfterGenerator(f2)]
    /\ UNCHANGED <<api_key, claude_agent, checkpointer, store, session, requests>>

\* lines 216-219: the next chunk of the provider's stream
CS_Chunk(p) ==
    /\ pc[p] = "cs_stream"
    /\ \E content \in NextChunks(frame[p].script) :
         LET f1 == [frame[p] EXCEPT !.script = Append(@, content)]
         IN  frame' = [frame EXCEPT ![p] =
                 IF NonEmpty(content)
                 THEN Yield([f1 EXCEPT !.full_response = @ \o content], content)
                 ELSE f1]
    /\ UNCHANGED <<api_key, claude_agent, checkpointer, store, session, pc, requests>>

\* the provider raises during the stream (also at its very start)
CS_StreamRaise(p) ==
    /\ pc[p] = "cs_stream"
    /\ \E e \in ProviderErrors :
         frame' = [frame EXCEPT ![p] = StreamExcept(Emit(frame[p], "stream_raised", e), e)]
    /\ pc' = [pc EXCEPT ![p] = AfterGenerator(frame'[p])]
    /\ UNCHANGED <<api_key, claude_agent, checkpointer, store, session, requests>>

\* lines 222: the guard of the save in chat_stream
StreamSaves(f) == Truthy(f.thread_id) /\ checkpointer /\ NonEmpty(f.formatted_messages)

\* a chat_stream that saves the history without the streamed reply
StreamCheckpoint_without_reply(f) ==
    Checkpoint(f.formatted_messages, IF Truthy(f.system_prompt) THEN f.system_prompt ELSE "")

\* lines 224-237: the checkpoint chat_stream saves
StreamCheckpoint(f) ==
    Checkpoint(Append(f.formatted_messages, AIMessage(f.full_response)),
               IF Truthy(f.system_prompt) THEN f.system_prompt ELSE "")

\* lines 221-246: the provider ends the stream and chat_stream saves; a failing
\* save is caught by the except clause of the same try.
CS_Save(p) ==
    /\ pc[p] = "cs_stream"
    /\ frame[p].script \in StreamScripts
    /\ LET f == frame[p]
       IN  \/ /\ ~StreamSaves(f)
              /\ UNCHANGED <<store, frame>>
           \/ /\ StreamSaves(f)
              /\ store' = [store EXCEPT ![f.thread_id] = StreamCheckpoint(f)]
              /\ frame' = [frame EXCEPT ![p] =
                     Emit([f EXCEPT !.saved = Append(@, StreamCheckpoint(f).messages)],
                          "save_checkpoint", EmptyText)]
           \/ /\ StreamSaves(f)
              /\ \E e \in StoreErrors :
                   frame' = [frame EXCEPT ![p] = StreamExcept(Emit(f, "save_failed", e), e)]
              /\ UNCHANGED store
    /\ pc' = [pc EXCEPT ![p] = AfterGenerator(frame'[p])]
    /\ UNCHANGED <<api_key, claude_agent, checkpointer, session, requests>>

\* ------------------------------------------------------------------- chat
\* lines 141-143: with a checkpoint and a non-empty history the checkpoint
\* (its messages extended, and its own system value) becomes the initial state
MergeChat(prev, formatted, system_prompt) ==
    IF prev.exists /\ NonEmpty(formatted)
    THEN [messages |-> prev.messages \o formatted, system |-> prev.system]
    ELSE [messages |-> formatted, system |-> IF Truthy(system_prompt) THEN system_prompt ELSE ""]

\* chat returns: to handle_message (lines 257-258, the text is emitted as one
\* chunk) or to a direct caller
ChatReturn(f, text) ==
    IF f.caller = "hm"
    THEN Emit([f EXCEPT !.assistant_response = text, !.result = Append(@, text)],
              "response_chunk", text)
    ELSE [f EXCEPT !.result = Append(@, text)]

\* a fallback after which handle_message returns at once
AfterChat_returning(f) == "idle"

AfterChat(f) == IF f.caller = "hm" THEN "hm_finish" ELSE "idle"

\* lines 167-170: the except clause of chat
ChatExcept(f, e) == ChatReturn(f, <<"Error communicating with Claude: ">> \o e)

\* lines 122-143
Chat_Load(p) ==
    /\ pc[p] = "chat_load"
    /\ LET f == frame[p]
           formatted == format_messages_for_graph(f.history)
           uses == Truthy(f.thread_id) /\ checkpointer
       IN  \/ /\ frame' = [frame EXCEPT ![p] =
                     LET f1 == [f EXCEPT !.formatted_messages = formatted,
                                         !.loaded = IF uses THEN Append(@, store[f.thread_id]) ELSE @,
                                         !.state = IF uses
                                                   THEN MergeChat(store[f.thread_id], formatted, f.system_prompt)
                                                   ELSE MergeChat(NoCheckpoint, formatted, f.system_prompt),
                                         !.overlapped = IF uses THEN @ \cup (InFlight(f.thread_id) \ {p}) ELSE @]
                     IN  IF uses THEN Emit(f1, "get_checkpoint", EmptyText) ELSE f1]
              /\ pc' = [pc EXCEPT ![p] = "chat_invoke"]
           \/ /\ uses
              /\ \E e \in StoreErrors :
                   frame' = [frame EXCEPT ![p] = ChatExcept(Emit(f, "get_failed", e), e)]
              /\ pc' = [pc EXCEPT ![p] = AfterChat(f)]
    /\ UNCHANGED <<api_key, claude_agent, checkpointer, store, session, requests>>

\* agent_node, lines 86-88: the messages given to llm.invoke
NodeMessages(state) ==
    IF Truthy(state.system) THEN <<SystemMessage(state.system)>> \o state.messages
    ELSE state.messages

\* agent_node, lines 95-99: a failing llm.invoke becomes an assistant message
NodeFallback(state, e) ==
    [state EXCEPT !.messages = Append(@, AIMessage(<<"I encountered an error processing your request: ">> \o e))]

\* line 149: the guard of the save in chat
ChatSaves(f) == Truthy(f.thread_id) /\ checkpointer

\* lines 152-157
ChatCheckpoint(state) == Checkpoint(state.messages, state.system)

\* lines 163-165
ChatResult(state) == state.messages[Len(state.messages)].content

\* lines 146-170: graph.invoke runs agent_node once (a failing llm.invoke
\* becomes a message), the final state is saved, and the content of its last
\* message is returned; a failing save is caught by the except clause.
Chat_Invoke(p) ==
    /\ pc[p] = "chat_invoke"
    /\ LET f == Emit([frame[p] EXCEPT !.sent = Append(@, NodeMessages(frame[p].state))],
                     "model_invoke", EmptyText)
       IN  \E out \in ({<<"ok", r>> : r \in InvokeTexts} \cup {<<"raise", e>> : e \in ProviderErrors}) :
             LET final == IF out[1] = "ok"
                          THEN [f.state EXCEPT !.messages = Append(@, AIMessage(out[2]))]
                          ELSE NodeFallback(f.state, out[2])
                 f1 == [(IF out[1] = "ok" THEN f ELSE Emit(f, "invoke_raised", out[2]))
                           EXCEPT !.state = final]
             IN  \/ /\ ~ChatSaves(f)
                    /\ frame' = [frame EXCEPT ![p] = ChatReturn(f1, ChatResult(final))]
                    /\ UNCHANGED store
                 \/ /\ ChatSaves(f)
                    /\ store' = [store EXCEPT ![f.thread_id] = ChatCheckpoint(final)]
                    /\ frame' = [frame EXCEPT ![p] =
                           ChatReturn(Emit([f1 EXCEPT !.saved = Append(@, final.messages)],
                                           "save_checkpoint", EmptyText),
                                      ChatResult(final))]
                 \/ /\ ChatSaves(f)
                    /\ \E e \in StoreErrors :
                         frame' = [frame EXCEPT ![p] = ChatExcept(Emit(f1, "save_failed", e), e)]
                    /\ UNCHANGED store
    /\ pc' = [pc EXCEPT ![p] = AfterChat(frame[p])]
    /\ UNCHANGED <<api_key, claude_agent, checkpointer, session, requests>>

\* app.py lines 267-275
HM_Finish(c) ==
    /\ pc[c] = "hm_finish"
    /\ session' = [session EXCEPT ![c] =
          IF NonEmpty(frame[c].assistant_response)
          THEN add_to_chat_history(@, "assistant", frame[c].assistant_response)
          ELSE @]
    /\ frame' = [frame EXCEPT ![c] = Emit(@, "response_end", EmptyText)]
    /\ pc' = [pc EXCEPT ![c] = "idle"]
    /\ UNCHANGED <<api_key, claude_agent, checkpointer, store, requests>>

\* ----------------------------------------------------------- page routes
\* a get_conversation_history that never finds anything
get_conversation_history_finding_nothing(t, store_raises) == << >>

\* get_conversation_history: None without a checkpointer, on a store error
\* (caught) or without a checkpoint
get_conversation_history(t, store_raises) ==
    IF ~checkpointer \/ store_raises \/ ~store[t].exists THEN << >> ELSE store[t].messages

\* index(), lines 117-139; store_raises says whether the store call inside
\* get_conversation_history raises (it is caught there)
IndexWith(c, store_raises) ==
    /\ pc[c] = "idle"
    /\ requests < MaxRequests
    /\ requests' = requests + 1
    /\ store_raises => (checkpointer /\ claude_agent # None /\ ~session[c].history_loaded)
    /\ LET sess == session[c]
           stored == get_conversation_history(sess.thread_id, store_raises)
           chat_history == stored_to_chat_history(stored)
       IN  session' = [session EXCEPT ![c] =
               IF Truthy(sess.thread_id) /\ ~sess.history_loaded /\ claude_agent # None
                  /\ NonEmpty(stored) /\ NonEmpty(chat_history)
               THEN [sess EXCEPT !.chat_history = chat_history, !.history_loaded = TRUE]
               ELSE sess]
    /\ UNCHANGED <<api_key, claude_agent, checkpointer, store, pc, frame>>

Index(c) == \E store_raises \in BOOLEAN : IndexWith(c, store_raises)

\* new_chat(), lines 155-161: a fresh uuid names a thread nobody has used
NewChat(c) ==
    /\ pc[c] = "idle"
    /\ requests < MaxRequests
    /\ requests' = requests + 1
    /\ \E t \in Threads :
         /\ ~store[t].exists
         /\ \A d \in Clients : session[d].thread_id # t
         /\ session' = [session EXCEPT ![c] =
                [chat_history |-> << >>, thread_id |-> t, history_loaded |-> FALSE]]
    /\ UNCHANGED <<api_key, claude_agent, checkpointer, store, pc, frame>>

\* switch_thread(thread_id), lines 191-198
SwitchThread(c, t) ==
    /\ pc[c] = "idle"
    /\ requests < MaxRequests
    /\ requests' = requests + 1
    /\ session' = [session EXCEPT ![c] =
           [chat_history |-> << >>, thread_id |-> t, history_loaded |-> FALSE]]
    /\ UNCHANGED <<api_key, claude_agent, checkpointer, store, pc, frame>>

\* ------------------------------------------------------------ direct calls
\* what a direct caller of the agent can pass
ApiHistories ==
    { << >>,
      << Entry("system", <<"note">>) >>,
      << Entry("user", <<"Hi">>) >>,
      << Entry("user", <<"Hi">>), Entry("assistant", <<"tok1">>), Entry("user", <<"more">>) >> }
ApiSystemPrompts == {None, APP_SYSTEM_PROMPT}
ApiThreadIds == {None, "t1"}

ApiFrame(history, system_prompt, thread_id) ==
    [EmptyFrame EXCEPT !.caller = "api", !.history = history,
                       !.system_prompt = system_prompt, !.thread_id = thread_id]

\* agent.chat(history, system_prompt, thread_id)
Api_chat(history, system_prompt, thread_id) ==
    /\ pc[ApiCaller] = "idle"
    /\ requests < MaxRequests
    /\ requests' = requests + 1
    /\ frame' = [frame EXCEPT ![ApiCaller] = ApiFrame(history, system_prompt, thread_id)]
    /\ pc' = [pc EXCEPT ![ApiCaller] = "chat_load"]
    /\ UNCHANGED <<api_key, claude_agent, checkpointer, store, session>>

\* for fragment in agent.chat_stream(history, system_prompt, thread_id)
Api_chat_stream(history, system_prompt, thread_id) ==
    /\ pc[ApiCaller] = "idle"
    /\ requests < MaxRequests
    /\ requests' = requests + 1
    /\ frame' = [frame EXCEPT ![ApiCaller] = ApiFrame(history, system_prompt, thread_id)]
    /\ pc' = [pc EXCEPT ![ApiCaller] = "cs_start"]
    /\ UNCHANGED <<api_key, claude_agent, checkpointer, store, session>>

\* app.py lines 204-206: the disconnect handler only logs.  It runs beside the
\* handle_message of the same client, which is not told.  A disconnect during
\* the stream is recorded in the request's trace (at any other time it
\* changes nothing at all).
HandleDisconnect(c) ==
    /\ pc[c] = "cs_stream"
    /\ ~HasEv(frame[c].trace, "disconnect")
    /\ frame' = [frame EXCEPT ![c] = Emit(@, "disconnect", EmptyText)]
    /\ UNCHANGED <<api_key, claude_agent, checkpointer, store, session, pc, requests>>

\* ------------------------------------------------------- the web application
Next ==
    \/ \E c \in Clients, m \in UserTexts : HM_Begin(c, m)
    \/ \E c \in Clients : CS_Start(c)
    \/ \E c \in Clients : CS_Chunk(c)
    \/ \E c \in Clients : CS_StreamRaise(c)
    \/ \E c \in Clients : CS_Save(c)
    \/ \E c \in Clients : Chat_Load(c)
    \/ \E c \in Clients : Chat_Invoke(c)
    \/ \E c \in Clients : HM_Finish(c)
    \/ \E c \in Clients : Index(c)
    \/ \E c \in Clients : NewChat(c)
    \/ \E c \in Clients, t \in Threads : SwitchThread(c, t)

Spec == Init /\ [][Next]_vars

\* ------------------------------------------ the web application, one session
FirstClient == "c1"

NextOne ==
    \/ \E m \in UserTexts : HM_Begin(FirstClient, m)
    \/ CS_Start(FirstClient)
    \/ CS_Chunk(FirstClient)
    \/ CS_StreamRaise(FirstClient)
    \/ CS_Save(FirstClient)
    \/ Chat_Load(FirstClient)
    \/ Chat_Invoke(FirstClient)
    \/ HM_Finish(FirstClient)
    \/ Index(FirstClient)
    \/ NewChat(FirstClient)
    \/ \E t \in Threads : SwitchThread(FirstClient, t)

SpecOne == Init /\ [][NextOne]_vars

\* one session, started over a store in which an earlier run left a
\* conversation on one of the threads (the session's own or another one)
InitPages ==
    /\ \E key \in BOOLEAN, llm_ok \in BOOLEAN, mongo_ok \in BOOLEAN :
          /\ api_key = key
          /\ claude_agent = ModuleStartup(key, llm_ok)
          /\ checkpointer = (ModuleStartup(key, llm_ok) = "Agent" /\ AgentInitCheckpointer(mongo_ok))
    /\ store \in {[t \in Threads |-> IF t = u THEN EarlierCheckpoint ELSE NoCheckpoint] : u \in Threads}
    /\ session = [c \in Clients |-> [chat_history |-> << >>, thread_id |-> "t1", history_loaded |-> FALSE]]
    /\ pc = [p \in Procs |-> "idle"]
    /\ frame = [p \in Procs |-> EmptyFrame]
    /\ requests = 0

SpecPages == InitPages /\ [][NextOne]_vars

\* one session whose transport may disconnect during a stream
NextDisconnect ==
    \/ NextOne
    \/ HandleDisconnect(FirstClient)

SpecDisconnect == Init /\ [][NextDisconnect]_vars

\* --------------------------------------- the agent used by one direct caller
InitApi ==
    /\ Init
    /\ claude_agent = "Agent"

NextApi ==
    \/ \E h \in ApiHistories, sp \in ApiSystemPrompts, t \in ApiThreadIds : Api_chat(h, sp, t)
    \/ \E h \in ApiHistories, sp \in ApiSystemPrompts, t \in ApiThreadIds : Api_chat_stream(h, sp, t)
    \/ CS_Start(ApiCaller)
    \/ CS_Chunk(ApiCaller)
    \/ CS_StreamRaise(ApiCaller)
    \/ CS_Save(ApiCaller)
    \/ Chat_Load(ApiCaller)
    \/ Chat_Invoke(ApiCaller)

SpecApi == InitApi /\ [][NextApi]_vars

\* ------------------------------------------------------- reading a trace
CountEv(tr, evs) == Cardinality({i \in DOMAIN tr : tr[i].ev \in evs})
ArgsOf(tr, ev) ==
    LET sel == SelectSeq(tr, LAMBDA x : x.ev = ev)
    IN  [i \in 1..Len(sel) |-> sel[i].arg]
Last(seq) == seq[Len(seq)]

\* the request of handle_message in frame f has emitted response_end
Ended(f) == f.caller = "hm" /\ NonEmpty(f.trace) /\ Last(f.trace).ev = "response_end"

FailureEvents == {"get_failed", "save_failed", "stream_raised", "invoke_raised"}
NothingFailed(f) == CountEv(f.trace, FailureEvents) = 0
SaveEvents == {"save_checkpoint", "save_failed"}

\* the request was answered by the stream alone and its save succeeded
StreamedAndSaved(f) ==
    /\ Ended(f)
    /\ NothingFailed(f)
    /\ HasEv(f.trace, "model_stream")
    /\ ~HasEv(f.trace, "model_invoke")
    /\ Len(f.saved) = 1

\* ------------------------- two direct callers and a deterministic provider
\* a second caller of the same agent calls chat
Peer_chat(history, system_prompt, thread_id) ==
    /\ pc[PeerCaller] = "idle"
    /\ requests < MaxRequests
    /\ requests' = requests + 1
    /\ frame' = [frame EXCEPT ![PeerCaller] = ApiFrame(history, system_prompt, thread_id)]
    /\ pc' = [pc EXCEPT ![PeerCaller] = "chat_load"]
    /\ UNCHANGED <<api_key, claude_agent, checkpointer, store, session>>

\* A provider whose answer is a function of the messages it is given: it
\* answers "tok1" under a system directive and nothing without one.  Streamed,
\* the same answer comes as one chunk (a chunk without content for no answer).
MockReply(messages) ==
    IF NonEmpty(messages) /\ messages[1].type = "system" THEN <<"tok1">> ELSE EmptyText
MockScript(messages) == << MockReply(messages) >>

\* llm.stream and llm.invoke of that provider
Mock_CS_Chunk(p) ==
    /\ CS_Chunk(p)
    /\ IsPrefix(frame'[p].script, MockScript(frame[p].sent[1]))

Mock_CS_Save(p) ==
    /\ pc[p] = "cs_stream"
    /\ frame[p].script = MockScript(frame[p].sent[1])
    /\ CS_Save(p)

Mock_Chat_Invoke(p) ==
    /\ Chat_Invoke(p)
    /\ ~HasEv(frame'[p].trace, "invoke_raised")
    /\ Last(frame'[p].state.messages).content = MockReply(NodeMessages(frame[p].state))

NextMock ==
    \/ \E h \in ApiHistories, sp \in ApiSystemPrompts, t \in ApiThreadIds : Api_chat_stream(h, sp, t)
    \/ \E h \in ApiHistories, sp \in ApiSystemPrompts, t \in ApiThreadIds : Peer_chat(h, sp, t)
    \/ CS_Start(ApiCaller)
    \/ Mock_CS_Chunk(ApiCaller)
    \/ Mock_CS_Save(ApiCaller)
    \/ Chat_Load(PeerCaller)
    \/ Mock_Chat_Invoke(PeerCaller)

SpecMock == InitApi /\ [][NextMock]_vars

\* ------------------------------------------------------------------ claims

\* C1: when a thread holds a non-empty persisted history H and a streaming
\* request with user text M completes successfully, what the request persists
\* is exactly H, then user(M), then assistant(response).
C1_StreamPersistsHistoryPlusTurn ==
    \A c \in Clients :
        LET f == frame[c]
        IN  (/\ StreamedAndSaved(f)
             /\ Len(f.loaded) = 1
             /\ f.loaded[1].exists
             /\ NonEmpty(f.loaded[1].messages))
            => f.saved[1] = f.loaded[1].messages
                              \o <<HumanMessage(f.user_message), AIMessage(f.full_response)>>

\* C2: a save never drops a message of the checkpoint it replaces: the
\* previous message sequence is a prefix of the new one.
C2_SaveKeepsPreviousMessages ==
    [][\A t \in Threads :
          (store[t].exists /\ store'[t] # store[t])
              => IsPrefix(store[t].messages, store'[t].messages)]_vars

\* two requests of different clients ran concurrently on one thread from the
\* same checkpoint, and neither read anything the other wrote
RanConcurrently(p, q) ==
    /\ p # q
    /\ Ended(frame[p]) /\ Ended(frame[q])
    /\ frame[p].thread_id = frame[q].thread_id
    /\ (q \in frame[p].overlapped \/ p \in frame[q].overlapped)
    /\ NonEmpty(frame[p].saved) /\ NonEmpty(frame[q].saved)
    /\ NonEmpty(frame[p].loaded) /\ NonEmpty(frame[q].loaded)
    /\ frame[p].loaded[1] = frame[q].loaded[1]
    /\ \A r \in {p, q} : \A i \in 2..Len(frame[r].loaded) :
           i - 1 <= Len(frame[r].saved) /\ frame[r].loaded[i].messages = frame[r].saved[i - 1]

\* C3: once two concurrent requests on a thread have both finished, the
\* persisted history is not shorter than what either persisted on its own.
C3_ConcurrentRequestsLoseNothing ==
    \A p \in Clients, q \in Clients :
        RanConcurrently(p, q)
            => /\ Len(store[frame[p].thread_id].messages) >= Len(Last(frame[p].saved))
               /\ Len(store[frame[p].thread_id].messages) >= Len(Last(frame[q].saved))

\* C4: a request that reaches response_end has attempted save_checkpoint
\* exactly once (stated for the requests in which the agent and the
\* checkpointer exist and no call failed).
C4_SaveAttemptedExactlyOnce ==
    \A c \in Clients :
        (Ended(frame[c]) /\ claude_agent # None /\ checkpointer /\ NothingFailed(frame[c]))
            => CountEv(frame[c].trace, SaveEvents) = 1

\* C5: in a request no fragment is delivered after a save_checkpoint call;
\* the save comes after the whole response (stated for the requests in which
\* no call failed).
C5_SaveAfterDelivery ==
    \A c \in Clients :
        LET tr == frame[c].trace
        IN  NothingFailed(frame[c])
            => \A i \in DOMAIN tr, j \in DOMAIN tr :
                   (i < j /\ tr[i].ev \in SaveEvents) => tr[j].ev # "response_chunk"

\* the fragments a stream yields for the chunks in script
NonEmptyChunks(script) == SelectSeq(script, LAMBDA c : NonEmpty(c))

\* the save of chat_stream failed after the stream had delivered its response
StreamSaveFailed(p) ==
    /\ pc[p] # "cs_stream"
    /\ HasEv(frame[p].trace, "save_failed")
    /\ ~HasEv(frame[p].trace, "model_invoke")
    /\ NonEmpty(frame[p].full_response)

\* C6: when save_checkpoint fails after a stream that delivered its response,
\* the user receives exactly the fragments of the response, as when the save
\* succeeds: no error fragment is added.
C6_FailedSaveAddsNoFragment ==
    \A c \in Clients :
        StreamSaveFailed(c)
            => ArgsOf(frame[c].trace, "response_chunk") = NonEmptyChunks(frame[c].script)

\* C7: a request during which get_checkpoint failed still calls the model (on
\* an empty prior history) before it ends.
C7_FailedLoadStillCallsModel ==
    \A c \in Clients :
        (Ended(frame[c]) /\ HasEv(frame[c].trace, "get_failed"))
            => NonEmpty(frame[c].sent)

NODE_ERROR_PREFIX == "I encountered an error processing your request: "
IsNodeErrorMessage(m) ==
    m.type = "ai" /\ NonEmpty(m.content) /\ m.content[1] = NODE_ERROR_PREFIX

AUTHENTICATION_FAILURE == <<"Error code: 401">>

\* C8: when the provider fails with an authentication failure during the
\* blocking invoke, chat returns a text containing "Error" and saves no
\* checkpoint whose assistant message is the error text.
C8_InvokeFailureNotPersisted ==
    \A p \in Procs :
        LET f == frame[p]
        IN  (ArgsOf(f.trace, "invoke_raised") = <<AUTHENTICATION_FAILURE>> /\ NonEmpty(f.result))
            => /\ ContainsError(Last(f.result))
               /\ \A i \in DOMAIN f.saved : ~IsNodeErrorMessage(Last(f.saved[i]))

\* C9: a call whose system_prompt is None still gives the model a leading
\* system directive.
C9_DefaultSystemDirective ==
    \A p \in Procs :
        LET f == frame[p]
        IN  (f.caller # "none" /\ f.system_prompt = None)
            => \A i \in DOMAIN f.sent :
                   NonEmpty(f.sent[i]) /\ f.sent[i][1].type = "system"

\* C10: when the provider fails during a stream, chat_stream does not raise:
\* after the fragments already yielded (those of the chunks produced so far)
\* it yields exactly one more fragment, the error text, and then ends.
C10_StreamFailureEndsWithErrorFragment ==
    \A p \in Procs :
        LET f == frame[p]
            tr == f.trace
        IN  \A i \in DOMAIN tr :
                tr[i].ev = "stream_raised"
                    => /\ ~f.raised
                       /\ pc[p] # "cs_stream"
                       /\ i < Len(tr)
                       /\ tr[i + 1] = Ev("yield", <<"Error during streaming: ">> \o tr[i].arg)
                       /\ \A j \in DOMAIN tr : j > i + 1 => tr[j].ev # "yield"
                       /\ ArgsOf(SubSeq(tr, 1, i), "yield") = NonEmptyChunks(f.script)

\* a stream that failed after it had yielded a fragment
C10_Witness ==
    \E p \in Procs :
        \E i \in DOMAIN frame[p].trace :
            /\ frame[p].trace[i].ev = "stream_raised"
            /\ HasEv(SubSeq(frame[p].trace, 1, i), "yield")
            /\ pc[p] = "idle"

\* C11: in a request the blocking fallback is attempted exactly when the
\* stream forwarded no fragment, at most once, and on the same messages the
\* stream was run on (stated for the requests in which no call failed).
C11_FallbackOnSameCandidateHistory ==
    \A c \in Clients :
        LET f == frame[c]
        IN  (Ended(f) /\ claude_agent # None /\ NothingFailed(f))
            => /\ HasEv(f.trace, "model_invoke") <=> ~HasEv(f.trace, "yield")
               /\ CountEv(f.trace, {"model_invoke"}) <= 1
               /\ HasEv(f.trace, "model_invoke") => (Len(f.sent) = 2 /\ f.sent[2] = f.sent[1])

\* C12: every send_message request delivers at least one non-empty fragment
\* to the user before response_end.
C12_UserAlwaysReceivesSomething ==
    \A c \in Clients :
        Ended(frame[c])
            => \E i \in DOMAIN frame[c].trace :
                   frame[c].trace[i].ev = "response_chunk" /\ NonEmpty(frame[c].trace[i].arg)

\* the concatenation of a sequence of texts
RECURSIVE Concat(_)
Concat(texts) == IF texts = << >> THEN EmptyText ELSE Head(texts) \o Concat(Tail(texts))

\* a chat_stream call and a chat call with the same arguments, run from the
\* same store state against the deterministic provider, both finished without
\* a failure
SameCallBothWays(f, g) ==
    /\ pc[ApiCaller] = "idle" /\ pc[PeerCaller] = "idle"
    /\ HasEv(f.trace, "model_stream") /\ HasEv(g.trace, "model_invoke")
    /\ f.history = g.history /\ f.system_prompt = g.system_prompt /\ f.thread_id = g.thread_id
    /\ f.loaded = g.loaded
    /\ NothingFailed(f) /\ NothingFailed(g)

\* C13: for the same history and system prompt and a deterministic provider,
\* the fragments yielded by chat_stream, concatenated in order, are the text
\* chat returns.
C13_StreamConcatEqualsChat ==
    SameCallBothWays(frame[ApiCaller], frame[PeerCaller])
        => Concat(ArgsOf(frame[ApiCaller].trace, "yield")) = Last(frame[PeerCaller].result)

\* C14: no send_message request is handled by a process that was started
\* without the provider credential.
C14_NoRequestWithoutCredential ==
    \A c \in Clients : HasEv(frame[c].trace, "response_start") => api_key

\* C15: no request reaches the model through an agent whose checkpointer
\* could not be initialised at startup (persistence silently disabled).
C15_NoRequestWithoutCheckpointer ==
    \A c \in Clients :
        (HasEv(frame[c].trace, "model_stream") \/ HasEv(frame[c].trace, "model_invoke"))
            => checkpointer

\* a streaming request with a non-empty reply that found no checkpoint for
\* its thread, was answered by the stream alone and saved
StreamedOnFreshThread(f) ==
    /\ StreamedAndSaved(f)
    /\ Len(f.loaded) = 1
    /\ ~f.loaded[1].exists
    /\ NonEmpty(f.full_response)

C17_DisconnectStopsForwardingAndSaves ==
    \A c \in Clients :
        LET tr == frame[c].trace
        IN  \A i \in DOMAIN tr :
                (/\ tr[i].ev = "disconnect"
                 /\ HasEv(SubSeq(tr, 1, i), "model_stream")
                 /\ ~HasEv(SubSeq(tr, 1, i), "model_invoke")
                 /\ CountEv(SubSeq(tr, 1, i), SaveEvents \cup FailureEvents) = 0)
                => /\ \A j \in DOMAIN tr : j > i => tr[j].ev # "response_chunk"
                   /\ (Ended(frame[c]) /\ checkpointer /\ NothingFailed(frame[c]))
                          => \E k \in DOMAIN frame[c].saved :
                                 Last(frame[c].saved[k]) =
                                     AIMessage(Concat(ArgsOf(SubSeq(tr, 1, i), "response_chunk")))

\* C18: on every thread at most one request is between its get_checkpoint
\* and its save_checkpoint at any moment.
C18_OneInFlightPerThread ==
    \A t \in Threads :
        Cardinality({q \in InFlight(t) : HasEv(frame[q].trace, "get_checkpoint")}) <= 1

\* the request in frame f is being answered by its stream: the blocking
\* fallback has not been called and get_checkpoint has not failed
AnsweredByStream(f) ==
    /\ f.caller = "hm"
    /\ HasEv(f.trace, "model_stream")
    /\ ~HasEv(f.trace, "model_invoke")
    /\ ~HasEv(f.trace, "get_failed")

\* the first n elements of a sequence
Take(seq, n) == SubSeq(seq, 1, IF n < Len(seq) THEN n ELSE Len(seq))

\* C19: within a request every non-empty fragment the provider produces is
\* forwarded to the caller exactly once and in production order, and at every
\* point the response buffers hold the concatenation of what was forwarded.
C19_FragmentsForwardedOnceInOrder ==
    \A c \in Clients :
        LET f == frame[c]
            produced == NonEmptyChunks(f.script)
            yielded == ArgsOf(f.trace, "yield")
            forwarded == ArgsOf(f.trace, "response_chunk")
        IN  AnsweredByStream(f)
            => /\ Take(yielded, Len(produced)) = produced
               /\ Len(yielded) >= Len(produced)
               /\ forwarded = yielded
               /\ f.full_response = Concat(produced)
               /\ f.assistant_response = Concat(forwarded)

\* a stream of two fragments, both forwarded, the stream ended
C19_Witness ==
    \E c \in Clients :
        /\ AnsweredByStream(frame[c])
        /\ pc[c] = "idle"
        /\ ArgsOf(frame[c].trace, "response_chunk") = << <<"tok1">>, <<"tok2">> >>
        /\ frame[c].assistant_response = <<"tok1", "tok2">>

\* a finished request whose user text was the empty string, served by an
\* agent with a checkpointer and without any failing call
EmptyTextRequest(f) ==
    /\ Ended(f)
    /\ f.user_message = EmptyText
    /\ claude_agent # None /\ checkpointer
    /\ NothingFailed(f)

\* C20: a request with the empty string as user text is not rejected: the
\* empty user message is appended to the history, every model call of the
\* request ends with it, and what the request persists ends with user("")
\* followed by the assistant message.
C20_EmptyUserTextIsProcessed ==
    \A c \in Clients :
        LET f == frame[c]
        IN  EmptyTextRequest(f)
            => /\ NonEmpty(f.history) /\ Last(f.history) = Entry("user", EmptyText)
               /\ NonEmpty(f.sent)
               /\ \A i \in DOMAIN f.sent : Last(f.sent[i]) = HumanMessage(EmptyText)
               /\ NonEmpty(f.saved)
               /\ LET persisted == Last(f.saved)
                  IN  /\ Len(persisted) >= 2
                      /\ persisted[Len(persisted) - 1] = HumanMessage(EmptyText)
                      /\ persisted[Len(persisted)] = AIMessage(f.assistant_response)
                      /\ store[f.thread_id].messages = persisted

\* an empty user text answered by the stream with a non-empty reply and saved
C20_Witness ==
    \E c \in Clients :
        /\ EmptyTextRequest(frame[c])
        /\ NonEmpty(frame[c].assistant_response)
        /\ ~HasEv(frame[c].trace, "model_invoke")
        /\ Len(store[frame[c].thread_id].messages) = 2

\* C21: every send_message request emits response_start once, as its first
\* event, and response_end once, as its last event, so that every
\* response_chunk lies between them; a request that has returned has emitted
\* response_end, on every path.
C21_OneStartOneEnd ==
    \A c \in Clients :
        LET f == frame[c]
            tr == f.trace
        IN  f.caller = "hm"
            => /\ NonEmpty(tr) /\ tr[1].ev = "response_start"
               /\ CountEv(tr, {"response_start"}) = 1
               /\ CountEv(tr, {"response_end"}) = (IF pc[c] = "idle" THEN 1 ELSE 0)
               /\ pc[c] = "idle" => Last(tr).ev = "response_end"

\* a finished request whose provider raised after a first fragment: the
\* fragment and the error fragment lie between response_start and response_end
C21_Witness ==
    \E c \in Clients :
        /\ Ended(frame[c])
        /\ HasEv(frame[c].trace, "stream_raised")
        /\ CountEv(frame[c].trace, {"response_chunk"}) = 2

\* the text collected by a request whose provider raised during the stream:
\* the fragments produced so far, then the error text
PartialPlusError(f) ==
    Concat(NonEmptyChunks(f.script))
        \o <<"Error during streaming: ">> \o ArgsOf(f.trace, "stream_raised")[1]

\* C22: when the provider raises during the stream of a request, the request
\* performs no save_checkpoint and leaves the thread's checkpoint as it found
\* it, and when it finishes the session history is the history before the
\* request, then the user message, then the partial text with the error text
\* as an assistant message.
C22_StreamFailureSavesNothing ==
    [][\A c \in Clients :
          LET f == frame[c]
          IN  (HasEv(f.trace, "stream_raised") /\ pc[c] = "hm_finish" /\ pc'[c] = "idle")
              => /\ CountEv(f.trace, SaveEvents) = 0
                 /\ f.saved = << >>
                 /\ ~HasEv(f.trace, "model_invoke")
                 /\ (Truthy(f.thread_id) /\ checkpointer)
                        => (Len(f.loaded) = 1 /\ store'[f.thread_id] = f.loaded[1])
                 /\ session[c].chat_history = f.history
                 /\ Last(f.history) = Entry("user", f.user_message)
                 /\ session'[c].chat_history =
                        Append(f.history, Entry("assistant", PartialPlusError(f)))]_vars

\* a request on a thread with a checkpoint whose provider raised after a
\* fragment, finished: the checkpoint is the one it loaded
C22_Witness ==
    \E c \in Clients :
        /\ Ended(frame[c])
        /\ HasEv(frame[c].trace, "stream_raised")
        /\ NonEmpty(frame[c].full_response)
        /\ Len(frame[c].loaded) = 1 /\ frame[c].loaded[1].exists
        /\ store[frame[c].thread_id] = frame[c].loaded[1]
        /\ session[c].chat_history =
               Append(frame[c].history, Entry("assistant", PartialPlusError(frame[c])))

FreshSession(c) == session[c].chat_history = << >> /\ ~session[c].history_loaded

====
